---- MODULE Spec2Model ----
(***************************************************************************)
(* Delivery pipeline of the Suno bridge userscript                         *)
(* (src/enhanced_tampermonkey.js): the fetch wrapper and parseClips,       *)
(* candidate validation, the retry engine (sendToWebhook /                 *)
(* handleSendError), the failed queue and its replay (retryFailedQueue),   *)
(* the health probe, and the persisted stores.                             *)
(*                                                                         *)
(* One action is one turn of the page's event loop: a callback together    *)
(* with every promise continuation (microtask) it triggers.                *)
(***************************************************************************)
EXTENDS Integers, Sequences, FiniteSets, Bags, TLC

(***************************************************************************)
(* CONFIG (enhanced_tampermonkey.js:23-31) and the slice of line 210.      *)
(***************************************************************************)
MAX_RETRIES == 3
RETRY_DELAY_BASE == 1000
BATCH_DELAY == 2000
MAX_QUEUE_SIZE == 50
EVICT_KEEP == 20

(***************************************************************************)
(* Bounds of the model.                                                    *)
(***************************************************************************)
NumIds == 2          \* identifiers that candidates carry: 1..NumIds
MaxBatch == 2        \* longest intercepted batch
MaxChains == 2       \* delivery chains started by batches and injections
MaxRuns == 1         \* invocations of retryFailedQueue
MaxSnapshot == 2     \* longest queue on which retryFailedQueue is invoked
MaxTime == 1         \* readings of the wall clock: 0..MaxTime
MaxCalls == 1        \* calls of fetch by the page the wrapper works on at once
MaxProbes == 2       \* health probes sent
MaxKeys == 2         \* known properties a decoded body carries at once

Ids == 1..NumIds
NoId == 0            \* a missing (falsy) identifier
NoTime == -1         \* a timestamp that was never set
FillerBase == 100    \* identifiers of records parked by earlier page loads

Titles == {"Song A", "Song B"}
NoTitle == ""
NoUrl == ""

Pow2(n) == 2 ^ n

Range(s) == {s[i] : i \in 1..Len(s)}

\* slice(0, n) in place of slice(-n): the first n elements
SliceLast_First(s, n) ==
    IF Len(s) <= n THEN s ELSE SubSeq(s, 1, n)

\* Array.prototype.slice(-n)
SliceLast(s, n) ==
    IF Len(s) <= n THEN s ELSE SubSeq(s, Len(s) - n + 1, Len(s))

(***************************************************************************)
(* Responses of the endpoint as GM_xmlhttpRequest reports them: onload     *)
(* with a status, onerror, ontimeout (lines 228-263).                      *)
(***************************************************************************)
Statuses == {200, 500}
Outcomes ==
    {[kind |-> "load", status |-> s] : s \in Statuses}
    \cup {[kind |-> "error", status |-> 0], [kind |-> "timeout", status |-> 0]}

\* the `code` argument of handleSendError: res.status, "NETWORK" or "TIMEOUT"
HttpCode(status) == [class |-> "HTTP", status |-> status]
NetworkCode == [class |-> "NETWORK", status |-> 0]
TimeoutCode == [class |-> "TIMEOUT", status |-> 0]

\* line 229
IsSuccessStatus(status) == status >= 200 /\ status < 300

(***************************************************************************)
(* Decoded JSON. A value is [t, seq]: t is its JavaScript type and seq its *)
(* elements when it is an array. A body is a value with the properties the *)
(* parser may look at: clips, result, data.clips, project.clips and        *)
(* response.clips ("undefined" where the property, or the object that      *)
(* should hold it, is missing). A body of type "invalid" is text that      *)
(* Response.json() cannot decode.                                          *)
(***************************************************************************)
JArr(s) == [t |-> "array", seq |-> s]
JString == [t |-> "string", seq |-> <<>>]      \* a non-empty string, "ok"
JNumber == [t |-> "number", seq |-> <<>>]      \* a non-zero number
JNull == [t |-> "null", seq |-> <<>>]          \* null, 0, "" or false
JObject == [t |-> "object", seq |-> <<>>]      \* an object that is no array
JUndefined == [t |-> "undefined", seq |-> <<>>]

Slots == {"clips", "result", "data_clips", "project_clips", "response_clips"}

Body(t, s, slots) ==
    [t |-> t, seq |-> s,
     clips |-> slots["clips"], result |-> slots["result"],
     data_clips |-> slots["data_clips"],
     project_clips |-> slots["project_clips"],
     response_clips |-> slots["response_clips"],
     own |-> <<>>]

NoSlots == [k \in Slots |-> JUndefined]
ArrayBody(s) == Body("array", s, NoSlots)
PlainBody(t) == Body(t, <<>>, NoSlots)
NoBody == PlainBody("undefined")

\* an object that is itself one clip: own holds its identity fields
EntityBody(clip) == [PlainBody("object") EXCEPT !.own = <<clip>>]

\* the value a condition takes as true
Truthy(v) == v.t \in {"array", "string", "number", "object"}

\* clips.length as a condition (line 418)
HasLength(v) ==
    CASE v.t = "array" -> Len(v.seq) > 0
      [] v.t = "string" -> TRUE
      [] OTHER -> FALSE

(***************************************************************************)
(* The page's calls of fetch (lines 394-427). A URL is the sequence of the  *)
(* words it is made of; String.prototype.includes looks for one of them.   *)
(* The first argument is a string, a Request (it has .url), a URL object   *)
(* (it has .toString) or missing.                                          *)
(***************************************************************************)
Includes(url, word) == \E i \in 1..Len(url) : url[i] = word

Urls ==
    {<<"suno.com/api", "feed">>, <<"clerk.suno.com", "v1">>,
     <<"cdn1.suno.ai", "image">>, <<"o1.ingest", "sentry", "io">>,
     <<"suno.com/api", "analytics">>}

FetchArgs ==
    {[shape |-> s, url |-> u] : s \in {"string", "request", "url"}, u \in Urls}
    \cup {[shape |-> "none", url |-> <<>>]}

NoArg == [shape |-> "none", url |-> <<>>]

\* what a call of fetch comes to: a response or a rejection. synth marks a
\* response the wrapper built itself (line 404), used a consumed body
NoOutcome ==
    [kind |-> "none", status |-> 0, body |-> NoBody, synth |-> FALSE, used |-> FALSE]
Resolved(status, body) ==
    [kind |-> "resolve", status |-> status, body |-> body, synth |-> FALSE,
     used |-> FALSE]
Rejected ==
    [kind |-> "reject", status |-> 0, body |-> NoBody, synth |-> FALSE, used |-> FALSE]

\* the health probes: those awaiting their response, and all that were sent
NoProbes == [pending |-> 0, sent |-> 0]

\* what the last turn did to a call of the page: its argument, the arguments
\* of the calls of the real fetch made for it, the real call's outcome, what
\* the page was handed, the body inspected and what parseClips made of it
NoTap ==
    [arg |-> NoArg, real |-> <<>>, outcome |-> NoOutcome, handed |-> NoOutcome,
     body |-> NoBody, parsed |-> JUndefined]

(***************************************************************************)
(* State.                                                                  *)
(*   sentIds      id -> [title, timestamp]            (line 43)            *)
(*   failedQueue  sequence of failed items            (line 44)            *)
(*   stats        total_sent, total_failed, last_sync (lines 45-50)        *)
(*   store        the GM_setValue stores, by STORAGE_KEYS                  *)
(*   inflight     bag of the POSTs awaiting their response                 *)
(*   timers       pending setTimeout callbacks, in the order they were set *)
(*   runs         the invocations of retryFailedQueue                      *)
(*   now          the wall clock (new Date())                              *)
(*   started      number of delivery chains started by handleClips         *)
(*   cleared      the sent cache has been cleared at least once            *)
(*   forgotten    the identifiers a clearing has taken out of sentIds      *)
(*   lastStep     what the last turn of the event loop did                 *)
(*   calls        the page's calls of fetch the wrapper is working on      *)
(*   probes       health probes: awaiting their response, and sent so far  *)
(*   lastHealth   the LAST_HEALTH_CHECK store (line 180), NoTime if unset  *)
(*   lastTap      what the last turn did to a call of the page             *)
(***************************************************************************)
VARIABLES sentIds, failedQueue, stats, store, inflight, timers, runs, now,
          started, cleared, forgotten, lastStep, calls, probes, lastHealth,
          lastTap

vars == <<sentIds, failedQueue, stats, store, inflight, timers, runs, now,
          started, cleared, forgotten, lastStep, calls, probes, lastHealth,
          lastTap>>

\* the machine state an event-loop turn works on, with the turn's own log:
\* seen (ids of the candidates handled), posted (POSTs issued), called (ids
\* sendToWebhook was called for),
\* evicted (line 210 ran), ended (delivery chains whose caller was told),
\* finished (runs of retryFailedQueue that reached line 331)
Cur ==
    [sentIds |-> sentIds, failedQueue |-> failedQueue, stats |-> stats,
     store |-> store, inflight |-> inflight, timers |-> timers, runs |-> runs,
     now |-> now, started |-> started, cleared |-> cleared,
     forgotten |-> forgotten,
     calls |-> calls, probes |-> probes, lastHealth |-> lastHealth, tap |-> NoTap,
     seen |-> {}, posted |-> <<>>, called |-> <<>>, evicted |-> FALSE,
     ended |-> <<>>, finished |-> <<>>, ret |-> "none"]

\* records parked by earlier page loads, read back by GM_getValue (line 44)
FillerItem(i) ==
    [id |-> FillerBase + i, title |-> "Song A", audio_url |-> "https://cdn/a.mp3",
     failed_at |-> 0, error_code |-> HttpCode(500)]
FillerQueue(n) == [i \in 1..n |-> FillerItem(i)]

\* queue lengths the script may find persisted when it starts
PreloadSizes == {0, MAX_QUEUE_SIZE - 1}

\* every parked record of a handleClips chain cost two Logger.error calls
InitStats(n) == [total_sent |-> 0, total_failed |-> 2 * n, last_sync |-> 0]

NoStep ==
    [op |-> "init", id |-> NoId, ok |-> FALSE, seen |-> {}, posted |-> <<>>,
     called |-> <<>>, evicted |-> FALSE, ended |-> <<>>, finished |-> <<>>]

Init ==
    \E n \in PreloadSizes :
        /\ sentIds = <<>>
        /\ failedQueue = FillerQueue(n)
        /\ stats = InitStats(n)
        /\ store = [sent |-> <<>>, queue |-> FillerQueue(n), stats |-> InitStats(n)]
        /\ inflight = EmptyBag
        /\ timers = <<>>
        /\ runs = <<>>
        /\ now = 0
        /\ started = 0
        /\ cleared = FALSE
        /\ forgotten = {}
        /\ lastStep = NoStep
        /\ calls = <<>>
        /\ probes = NoProbes
        /\ lastHealth = NoTime
        /\ lastTap = NoTap

\* sentIds[id] is truthy
IsSent(m, id) == id \in DOMAIN m.sentIds

(***************************************************************************)
(* saveStats (lines 143-146) and Logger.error (lines 72-77).               *)
(***************************************************************************)
\* saveStats without its GM_setValue (line 145)
saveStats_NoWrite(m) ==
    [m EXCEPT !.stats.last_sync = m.now]

saveStats(m) ==
    LET st == [m.stats EXCEPT !.last_sync = m.now]
    IN  [m EXCEPT !.stats = st, !.store.stats = st]

Logger_error(m) ==
    saveStats([m EXCEPT !.stats.total_failed = @ + 1])

(***************************************************************************)
(* A delivery chain: the record handed to sendToWebhook, the attempt       *)
(* number, and who awaits the promise of attempt 1 (origin 0: the .catch   *)
(* of handleClips, line 377; origin r > 0: the await of run r, line 321).  *)
(* posts, fails, incs (Logger.error calls made for the chain) and delays   *)
(* (the setTimeout delays so far) are the chain's history. A chain ends    *)
(* "delivered" (a 2xx response), "exhausted" (line 279) or "skipped" (a    *)
(* retry found the identifier in sentIds, line 202).                       *)
(***************************************************************************)
NewChain(data, origin) ==
    [id |-> data.id, title |-> data.title, audio_url |-> data.audio_url,
     attempt |-> 1, origin |-> origin,
     posts |-> 0, fails |-> 0, incs |-> 0, delays |-> <<>>]

NoChain == NewChain([id |-> NoId, title |-> NoTitle, audio_url |-> NoUrl], 0)

\* line 282 with the test always false
InQueue_Never(q, id) == FALSE

\* failedQueue.some(item => item.id === id), line 282
InQueue(q, id) == \E i \in 1..Len(q) : q[i].id = id

\* the filter of line 253 with its test inverted (===): keeps only the
\* items of the delivered identifier
RECURSIVE RemoveId_Inverted(_, _)
RemoveId_Inverted(q, id) ==
    IF q = <<>> THEN <<>>
    ELSE IF Head(q).id = id THEN <<Head(q)>> \o RemoveId_Inverted(Tail(q), id)
         ELSE RemoveId_Inverted(Tail(q), id)

\* failedQueue.filter(item => item.id !== id), line 253
RECURSIVE RemoveId(_, _)
RemoveId(q, id) ==
    IF q = <<>> THEN <<>>
    ELSE IF Head(q).id # id THEN <<Head(q)>> \o RemoveId(Tail(q), id)
         ELSE RemoveId(Tail(q), id)

\* lines 207-212: the queue-size check at the start of a delivery attempt
EvictIfFull(m) ==
    IF Len(m.failedQueue) >= MAX_QUEUE_SIZE
    THEN LET q == SliceLast(m.failedQueue, EVICT_KEEP)
         IN  [m EXCEPT !.failedQueue = q, !.store.queue = q, !.evicted = TRUE]
    ELSE m

\* lines 200-266 up to the issue of the request; c.attempt is the attempt
\* argument. ret tells the caller whether the promise it holds is already
\* resolved (line 204) or pending on the request.
sendToWebhook(m, c) ==
    LET m0 == [m EXCEPT !.called = Append(@, c.id)]
    IN  IF IsSent(m0, c.id)
        THEN [m0 EXCEPT !.ret = "resolved"]
        ELSE LET m1 == EvictIfFull(m0)
                 c1 == [c EXCEPT !.posts = @ + 1]
             IN  [m1 EXCEPT
                    !.inflight = @ (+) SetToBag({c1}),
                    !.posted = Append(@, [id |-> c.id, title |-> c.title,
                                          attempt |-> c.attempt]),
                    !.ret = "pending"]

(***************************************************************************)
(* retryFailedQueue, lines 307-333.                                        *)
(***************************************************************************)
\* lines 322-325: the awaited promise resolved
ReplaySuccess(m, r) ==
    [m EXCEPT !.runs[r].successCount = @ + 1,
              !.runs[r].phase = "sleep",
              !.timers = Append(@, [kind |-> "batch", delay |-> BATCH_DELAY,
                                    chain |-> NoChain, run |-> r])]

\* a run that has returned: its locals are gone
DoneRun ==
    [snapshot |-> <<>>, idx |-> 0, successCount |-> 0, phase |-> "done",
     all2xx |-> TRUE, uncleared |-> TRUE, delivered |-> 0, parked |-> 0]

\* lines 319-321 and 331: the loop moves to its next item, or ends
ReplayNext(m, r) ==
    LET run == m.runs[r]
        i == run.idx + 1
    IN  IF i > Len(run.snapshot)
        THEN [m EXCEPT !.runs[r] = DoneRun, !.finished = Append(@, run)]
        ELSE LET item == run.snapshot[i]
                 m1 == sendToWebhook([m EXCEPT !.runs[r].idx = i,
                                               !.runs[r].phase = "await"],
                                     NewChain(item, r))
             IN  IF m1.ret = "resolved" THEN ReplaySuccess(m1, r) ELSE m1

\* run r learns how the chain of its item ended (delivered and parked count
\* the chains that ended with a 2xx response and with exhausted retries)
Tally(m, r, how) ==
    [m EXCEPT !.runs[r].delivered = IF how = "delivered" THEN @ + 1 ELSE @,
              !.runs[r].parked = IF how = "exhausted" THEN @ + 1 ELSE @]

\* Settle with handleClips calling sendToWebhook without its .catch (lines
\* 377-379): a rejection of the promise has no handler
Settle_NoCatch(m, c, ok, how) ==
    LET c1 == IF ok \/ c.origin = 0 THEN c ELSE [c EXCEPT !.incs = @ + 1]
        fin == [id |-> c1.id, title |-> c1.title, origin |-> c1.origin,
                posts |-> c1.posts, fails |-> c1.fails, incs |-> c1.incs,
                ok |-> ok, how |-> how,
                caught |-> IF ok THEN "none"
                           ELSE IF c.origin = 0 THEN "unhandled"
                           ELSE "retryFailedQueue"]
        m1 == [m EXCEPT !.ended = Append(@, fin)]
    IN  IF c.origin = 0
        THEN m1
        ELSE IF ok THEN ReplaySuccess(Tally(m1, c.origin, how), c.origin)
             ELSE ReplayNext(Logger_error(Tally(m1, c.origin, how)), c.origin)

\* the continuation of whoever holds the promise of attempt 1:
\* handleClips' .catch (lines 377-379) or the try/catch of lines 320-328;
\* caught names the handler a rejection went to
Settle(m, c, ok, how) ==
    LET c1 == IF ok THEN c ELSE [c EXCEPT !.incs = @ + 1]
        fin == [id |-> c1.id, title |-> c1.title, origin |-> c1.origin,
                posts |-> c1.posts, fails |-> c1.fails, incs |-> c1.incs,
                ok |-> ok, how |-> how,
                caught |-> IF ok THEN "none"
                           ELSE IF c.origin = 0 THEN "handleClips"
                           ELSE "retryFailedQueue"]
        m1 == [m EXCEPT !.ended = Append(@, fin)]
    IN  IF c.origin = 0
        THEN IF ok THEN m1 ELSE Logger_error(m1)
        ELSE IF ok THEN ReplaySuccess(Tally(m1, c.origin, how), c.origin)
             ELSE ReplayNext(Logger_error(Tally(m1, c.origin, how)), c.origin)

\* lines 273-277: the promise of a retry is chained to the `reject` of the
\* attempt before it by .then(reject).catch(reject)
RetryLink(attempt, ok) == IF attempt = 1 THEN ok ELSE FALSE

\* lines 273-277 without .then(reject).catch(reject): the promise of
\* attempt 1 never learns how a retry ended
ChainEnd_Unlinked(m, c, ok, how) ==
    IF c.attempt = 1 THEN Settle(m, c, ok, how) ELSE m

\* the promise of attempt c.attempt settles; the promise of attempt 1 follows
ChainEnd(m, c, ok, how) == Settle(m, c, RetryLink(c.attempt, ok), how)

\* lines 229-256: the success path of onload
DeliverySuccess(m, c) ==
    LET s == (c.id :> [timestamp |-> m.now, title |-> c.title]) @@ m.sentIds
        m1 == [m EXCEPT !.sentIds = s, !.store.sent = s]
        m2 == saveStats([m1 EXCEPT !.stats.total_sent = @ + 1])
        q == RemoveId(m2.failedQueue, c.id)
        m3 == [m2 EXCEPT !.failedQueue = q, !.store.queue = q]
    IN  ChainEnd(m3, c, TRUE, "delivered")

\* line 270 with the exponent one too small
RetryDelay_OffByOne(attempt) == RETRY_DELAY_BASE * Pow2(attempt - 1)

\* line 270
RetryDelay(attempt) == RETRY_DELAY_BASE * Pow2(attempt)

\* line 269 with <= for <
MayRetry_OneMore(attempt) == attempt <= MAX_RETRIES

\* line 269
MayRetry(attempt) == attempt < MAX_RETRIES

\* lines 268-302 with reject called as soon as the retry is scheduled
handleSendError_RejectsEarly(m, code, c) ==
    LET c1 == [c EXCEPT !.fails = @ + 1]
    IN  IF MayRetry(c.attempt)
        THEN LET delay == RetryDelay(c.attempt)
                 c2 == [c1 EXCEPT !.delays = Append(@, delay)]
                 m1 == [m EXCEPT !.timers = Append(@, [kind |-> "retry",
                                                       delay |-> delay,
                                                       chain |-> c2, run |-> 0])]
             IN  ChainEnd(m1, c2, FALSE, "retrying")
        ELSE LET m1 == Logger_error(m)
                 c2 == [c1 EXCEPT !.incs = @ + 1]
                 q == Append(m1.failedQueue,
                             [id |-> c.id, title |-> c.title,
                              audio_url |-> c.audio_url,
                              failed_at |-> m.now, error_code |-> code])
                 m2 == IF ~InQueue(m1.failedQueue, c.id)
                       THEN [m1 EXCEPT !.failedQueue = q, !.store.queue = q]
                       ELSE m1
             IN  ChainEnd(m2, c2, FALSE, "exhausted")

\* lines 268-302
handleSendError(m, code, c) ==
    LET c1 == [c EXCEPT !.fails = @ + 1]
    IN  IF MayRetry(c.attempt)
        THEN LET delay == RetryDelay(c.attempt)
                 c2 == [c1 EXCEPT !.delays = Append(@, delay)]
             IN  [m EXCEPT !.timers = Append(@, [kind |-> "retry", delay |-> delay,
                                                 chain |-> c2, run |-> 0])]
        ELSE LET m1 == Logger_error(m)
                 c2 == [c1 EXCEPT !.incs = @ + 1]
                 q == Append(m1.failedQueue,
                             [id |-> c.id, title |-> c.title,
                              audio_url |-> c.audio_url,
                              failed_at |-> m.now, error_code |-> code])
                 m2 == IF ~InQueue(m1.failedQueue, c.id)
                       THEN [m1 EXCEPT !.failedQueue = q, !.store.queue = q]
                       ELSE m1
             IN  ChainEnd(m2, c2, FALSE, "exhausted")

\* lines 228-263 with ontimeout reporting 'NETWORK' like onerror
OnResponse_TimeoutAsNetwork(m, c, o) ==
    CASE o.kind = "load" ->
            IF IsSuccessStatus(o.status) THEN DeliverySuccess(m, c)
            ELSE handleSendError(m, HttpCode(o.status), c)
      [] o.kind = "error" -> handleSendError(m, NetworkCode, c)
      [] o.kind = "timeout" -> handleSendError(m, NetworkCode, c)

\* lines 228-263: onload, onerror, ontimeout
OnResponse(m, c, o) ==
    CASE o.kind = "load" ->
            IF IsSuccessStatus(o.status) THEN DeliverySuccess(m, c)
            ELSE handleSendError(m, HttpCode(o.status), c)
      [] o.kind = "error" -> handleSendError(m, NetworkCode, c)
      [] o.kind = "timeout" -> handleSendError(m, TimeoutCode, c)

\* lines 273-277: the retry timer's callback
OnRetryTimer(m, c) ==
    LET c1 == [c EXCEPT !.attempt = @ + 1]
        m1 == sendToWebhook(m, c1)
    IN  IF m1.ret = "resolved" THEN ChainEnd(m1, c1, TRUE, "skipped") ELSE m1

(***************************************************************************)
(* Candidates and handleClips (lines 350-387).                             *)
(***************************************************************************)
AudioUrl(id) == "https://cdn1.suno.ai/" \o ToString(id) \o ".mp3"

GoodClip(id, title) ==
    [id |-> id, title |-> title, status |-> "complete", is_trashed |-> FALSE,
     audio_url |-> AudioUrl(id)]

\* complete candidates, and candidates that miss one clause of the validation
Candidates ==
    {GoodClip(1, t) : t \in Titles}
    \cup {GoodClip(i, NoTitle) : i \in Ids \ {1}}
    \cup {[GoodClip(1, "Song A") EXCEPT !.id = NoId],
          [GoodClip(1, "Song A") EXCEPT !.status = "streaming"],
          [GoodClip(1, "Song A") EXCEPT !.is_trashed = TRUE],
          [GoodClip(1, "Song A") EXCEPT !.audio_url = NoUrl]}

Batches == UNION {[1..n -> Candidates] : n \in 1..MaxBatch}

\* lines 358-363 without the test of line 362
ClipIsValid_NoUrlTest(m, clip) ==
    /\ clip.id # NoId
    /\ clip.status = "complete"
    /\ ~clip.is_trashed
    /\ ~IsSent(m, clip.id)

\* lines 358-363 without the test of line 360
ClipIsValid_NoStatusTest(m, clip) ==
    /\ clip.id # NoId
    /\ ~clip.is_trashed
    /\ clip.audio_url # NoUrl
    /\ ~IsSent(m, clip.id)

\* lines 358-363 without the test of line 361
ClipIsValid_NoTrashTest(m, clip) ==
    /\ clip.id # NoId
    /\ clip.status = "complete"
    /\ clip.audio_url # NoUrl
    /\ ~IsSent(m, clip.id)

\* lines 358-363
ClipIsValid(m, clip) ==
    /\ clip.id # NoId
    /\ clip.status = "complete"
    /\ ~clip.is_trashed
    /\ clip.audio_url # NoUrl
    /\ ~IsSent(m, clip.id)

\* lines 367-375
Payload(clip) ==
    [id |-> clip.id,
     title |-> IF clip.title # NoTitle THEN clip.title
               ELSE "Suno Track " \o ToString(clip.id),
     audio_url |-> clip.audio_url]

\* lines 354-382: the forEach over the batch
RECURSIVE handleClips(_, _)
handleClips(m, clips) ==
    IF clips = <<>> THEN m
    ELSE LET clip == Head(clips)
             m1 == IF ClipIsValid(m, clip)
                   THEN sendToWebhook([m EXCEPT !.started = @ + 1],
                                      NewChain(Payload(clip), 0))
                   ELSE m
         IN  handleClips(m1, Tail(clips))

\* lines 524-531 without the audio_url of line 527
ManualClip_NoAudio(id) ==
    [id |-> id, title |-> "Manual Override", status |-> "complete",
     is_trashed |-> FALSE, audio_url |-> NoUrl]

\* lines 524-531: the clip the control panel builds for an identifier
ManualClip(id) ==
    [id |-> id, title |-> "Manual Override", status |-> "complete",
     is_trashed |-> FALSE, audio_url |-> AudioUrl(id)]

\* line 351: anything but an array is handled as an empty batch
handleClipsRaw(m, rawClips) ==
    handleClips(m, IF rawClips.t = "array" THEN rawClips.seq ELSE <<>>)

(***************************************************************************)
(* parseClips (lines 338-345).                                             *)
(***************************************************************************)
\* lines 338-345 without line 343
parseClips_NoProject(source) ==
    IF ~Truthy(source) THEN JArr(<<>>)
    ELSE IF source.t = "array" THEN JArr(source.seq)
    ELSE IF Truthy(source.clips) THEN source.clips
    ELSE IF Truthy(source.result) THEN source.result
    ELSE JArr(<<>>)

\* lines 338-345 with an object that is itself a clip wrapped in an array
parseClips_SingleEntity(source) ==
    IF ~Truthy(source) THEN JArr(<<>>)
    ELSE IF source.t = "array" THEN JArr(source.seq)
    ELSE IF Truthy(source.clips) THEN source.clips
    ELSE IF Truthy(source.result) THEN source.result
    ELSE IF Truthy(source.project_clips) THEN source.project_clips
    ELSE JArr(source.own)

\* lines 338-345
parseClips(source) ==
    IF ~Truthy(source) THEN JArr(<<>>)
    ELSE IF source.t = "array" THEN JArr(source.seq)
    ELSE IF Truthy(source.clips) THEN source.clips
    ELSE IF Truthy(source.result) THEN source.result
    ELSE IF Truthy(source.project_clips) THEN source.project_clips
    ELSE JArr(<<>>)

(***************************************************************************)
(* The wrapper installed on unsafeWindow.fetch (lines 394-427).            *)
(***************************************************************************)
\* lines 397-399
ResolveUrl(arg) ==
    CASE arg.shape = "string" -> arg.url
      [] arg.shape = "request" -> arg.url
      [] arg.shape = "url" -> arg.url
      [] OTHER -> <<>>

\* line 402
Blocked == {"stratovibe", "sentry", "segment", "agentio", "analytics"}

\* line 403 with no URL taken as a tracker
IsBlocked_Never(url) == FALSE

\* line 403
IsBlocked(url) == \E b \in Blocked : Includes(url, b)

\* line 413 with the test always true
IsSunoApi_Any(url) == TRUE

\* line 413
IsSunoApi(url) == Includes(url, "suno.com/api") \/ Includes(url, "clerk.suno.com")

\* lines 404-407
BlockedResponse ==
    [kind |-> "resolve", status |-> 200, body |-> PlainBody("object"),
     synth |-> TRUE, used |-> FALSE]

\* a call the wrapper is working on: awaiting the real fetch (stage "real",
\* line 410) or the decoding of the cloned body (stage "inspect", line 416)
PendingCall(arg) == [arg |-> arg, stage |-> "real", body |-> NoBody]

DropCall(m, i) ==
    [m EXCEPT !.calls = SubSeq(@, 1, i - 1) \o SubSeq(@, i + 1, Len(@))]

\* lines 394-410: the page calls fetch
fetchCalled(m, arg) ==
    IF IsBlocked(ResolveUrl(arg))
    THEN [m EXCEPT !.tap = [NoTap EXCEPT !.arg = arg, !.handed = BlockedResponse]]
    ELSE [m EXCEPT !.calls = Append(@, PendingCall(arg)),
                   !.tap = [NoTap EXCEPT !.arg = arg, !.real = <<arg>>]]

\* lines 410-426 with the body read from the response itself (line 414
\* without clone)
fetchSettled_Consumes(m, i, o) ==
    LET c == m.calls[i]
        suno == o.kind = "resolve" /\ IsSunoApi(ResolveUrl(c.arg))
        tap == [NoTap EXCEPT !.arg = c.arg, !.outcome = o,
                             !.handed = [o EXCEPT !.used = suno]]
    IN  IF suno
        THEN [m EXCEPT !.calls[i] = [c EXCEPT !.stage = "inspect", !.body = o.body],
                       !.tap = tap]
        ELSE [DropCall(m, i) EXCEPT !.tap = tap]

\* lines 410-426: the real fetch settles with outcome o; a rejection is the
\* rejection of the wrapper's promise, a response is cloned when the URL is
\* one of Suno's and returned
fetchSettled(m, i, o) ==
    LET c == m.calls[i]
        tap == [NoTap EXCEPT !.arg = c.arg, !.outcome = o, !.handed = o]
    IN  IF o.kind = "resolve" /\ IsSunoApi(ResolveUrl(c.arg))
        THEN [m EXCEPT !.calls[i] = [c EXCEPT !.stage = "inspect", !.body = o.body],
                       !.tap = tap]
        ELSE [DropCall(m, i) EXCEPT !.tap = tap]

\* lines 416-424: clone.json() settles; its rejection and anything thrown by
\* the continuation end in the empty .catch
bodyDecoded(m, i) ==
    LET c == m.calls[i]
        m0 == DropCall(m, i)
        tap == [NoTap EXCEPT !.arg = c.arg, !.body = c.body]
    IN  IF c.body.t = "invalid" THEN [m0 EXCEPT !.tap = tap]
        ELSE LET clips == parseClips(c.body)
                 m1 == [m0 EXCEPT !.tap = [tap EXCEPT !.parsed = clips]]
             IN  IF HasLength(clips) THEN handleClipsRaw(m1, clips) ELSE m1

(***************************************************************************)
(* performHealthCheck (lines 167-192), showStats (lines 148-162) and the   *)
(* menu command "Export Failed Queue" (lines 568-578).                     *)
(***************************************************************************)
\* what a probe comes to: a response with a status, or a rejected fetch
ProbeOutcomes ==
    {Resolved(s, PlainBody("object")) : s \in Statuses} \cup {Rejected}

\* Response.ok
ResponseOk(o) == o.kind = "resolve" /\ IsSuccessStatus(o.status)

\* lines 168-177: the probe is sent
performHealthCheck(m) ==
    [m EXCEPT !.probes.pending = @ + 1, !.probes.sent = @ + 1]

\* lines 186-191 with a failed probe sent again
healthSettled_Retries(m, o) ==
    LET m0 == [m EXCEPT !.probes.pending = @ - 1, !.tap = [NoTap EXCEPT !.outcome = o]]
    IN  IF ResponseOk(o) THEN [m0 EXCEPT !.lastHealth = m.now]
        ELSE performHealthCheck(m0)

\* lines 179-191: the awaited fetch of the probe settles
healthSettled(m, o) ==
    LET m0 == [m EXCEPT !.probes.pending = @ - 1, !.tap = [NoTap EXCEPT !.outcome = o]]
    IN  IF o.kind = "reject" THEN Logger_error(m0)
        ELSE IF ResponseOk(o) THEN [m0 EXCEPT !.lastHealth = m.now]
        ELSE m0

\* lines 148-162: an alert and a log line
showStats(m) == m

\* lines 568-578: the queue is serialized into a download
exportFailedQueue(m) == m

(***************************************************************************)
(* Actions: one per turn of the event loop.                                *)
(***************************************************************************)
Commit(m, op, id, ok) ==
    /\ sentIds' = m.sentIds
    /\ failedQueue' = m.failedQueue
    /\ stats' = m.stats
    /\ store' = m.store
    /\ inflight' = m.inflight
    /\ timers' = m.timers
    /\ runs' = m.runs
    /\ now' = m.now
    /\ started' = m.started
    /\ cleared' = m.cleared
    /\ forgotten' = m.forgotten
    /\ calls' = m.calls
    /\ probes' = m.probes
    /\ lastHealth' = m.lastHealth
    /\ lastTap' = m.tap
    /\ lastStep' = [op |-> op, id |-> id, ok |-> ok, seen |-> m.seen,
                    posted |-> m.posted, called |-> m.called,
                    evicted |-> m.evicted, ended |-> m.ended,
                    finished |-> m.finished]

\* the runs that have not finished see a response that is not 2xx
SawFailure(m) ==
    [m EXCEPT !.runs = [r \in DOMAIN m.runs |->
                          IF m.runs[r].phase # "done"
                          THEN [m.runs[r] EXCEPT !.all2xx = FALSE]
                          ELSE m.runs[r]]]

\* the runs that have not finished see the sent cache cleared
SawClear(m) ==
    [m EXCEPT !.runs = [r \in DOMAIN m.runs |->
                          IF m.runs[r].phase # "done"
                          THEN [m.runs[r] EXCEPT !.uncleared = FALSE]
                          ELSE m.runs[r]]]

\* the fetch wrapper hands a parsed, non-empty batch to handleClips (line 419)
HandleClips ==
    \E clips \in Batches :
        LET m == handleClips([Cur EXCEPT !.seen = {clips[i].id : i \in DOMAIN clips}],
                             clips)
        IN  /\ started < MaxChains
            /\ m.started <= MaxChains
            /\ Commit(m, "HandleClips", NoId, FALSE)

\* btn.onclick, lines 517-533
ManualInject ==
    \E id \in Ids \cup {NoId} :
        LET m == IF id = NoId THEN Cur
                 ELSE handleClips([Cur EXCEPT !.seen = {id}], <<ManualClip(id)>>)
        IN  /\ started < MaxChains
            /\ m.started <= MaxChains
            /\ Commit(m, "ManualInject", id, FALSE)

\* a request completes: onload, onerror or ontimeout
Response ==
    \E c \in BagToSet(inflight), o \in Outcomes :
        LET ok == o.kind = "load" /\ IsSuccessStatus(o.status)
            m0 == [Cur EXCEPT !.inflight = @ (-) SetToBag({c}),
                              !.tap = [NoTap EXCEPT !.outcome = o]]
            m1 == IF ok THEN m0 ELSE SawFailure(m0)
        IN  Commit(OnResponse(m1, c, o), "Response", c.id, ok)

\* timers[i] may fire when no timer set before it is due before it
CanFire(i) == \A j \in 1..(i - 1) : timers[j].delay > timers[i].delay

DropTimer(m, i) ==
    [m EXCEPT !.timers = SubSeq(@, 1, i - 1) \o SubSeq(@, i + 1, Len(@))]

RetryTimer ==
    \E i \in 1..Len(timers) :
        /\ timers[i].kind = "retry"
        /\ CanFire(i)
        /\ Commit(OnRetryTimer(DropTimer(Cur, i), timers[i].chain),
                  "RetryTimer", timers[i].chain.id, FALSE)

\* line 325: the pause between two items of a run is over
BatchTimer ==
    \E i \in 1..Len(timers) :
        /\ timers[i].kind = "batch"
        /\ CanFire(i)
        /\ Commit(ReplayNext(DropTimer(Cur, i), timers[i].run),
                  "BatchTimer", NoId, FALSE)

\* lines 307-317 without the test of line 308
retryFailedQueue_NoGuard(m) ==
    LET run == [snapshot |-> m.failedQueue, idx |-> 0, successCount |-> 0,
                phase |-> "await", all2xx |-> TRUE, uncleared |-> TRUE,
                delivered |-> 0, parked |-> 0]
    IN  ReplayNext([m EXCEPT !.runs = Append(@, run)], Len(m.runs) + 1)

\* lines 307-317: the menu command "Retry Failed Queue"
retryFailedQueue(m) ==
    IF Len(m.failedQueue) = 0 THEN m
    ELSE LET run == [snapshot |-> m.failedQueue, idx |-> 0, successCount |-> 0,
                     phase |-> "await", all2xx |-> TRUE, uncleared |-> TRUE,
                     delivered |-> 0, parked |-> 0]
         IN  ReplayNext([m EXCEPT !.runs = Append(@, run)], Len(m.runs) + 1)

RetryFailedQueue ==
    /\ Len(runs) < MaxRuns
    /\ Len(failedQueue) <= MaxSnapshot
    /\ Commit(retryFailedQueue(Cur), "RetryFailedQueue", NoId, FALSE)

\* lines 550-556 without the GM_setValue of line 552: the stored map stays
clearSentCache_MemoryOnly(m, confirmed) ==
    IF confirmed
    THEN SawClear([m EXCEPT !.sentIds = <<>>, !.cleared = TRUE,
                            !.forgotten = @ \cup DOMAIN m.sentIds])
    ELSE m

\* lines 550-556: the menu command "Clear Sent Cache"
clearSentCache(m, confirmed) ==
    IF confirmed
    THEN SawClear([m EXCEPT !.store.sent = <<>>, !.sentIds = <<>>, !.cleared = TRUE,
                            !.forgotten = @ \cup DOMAIN m.sentIds])
    ELSE m

ClearSentCache ==
    \E confirmed \in BOOLEAN :
        LET m == clearSentCache(Cur, confirmed)
        IN  Commit(m, "ClearSentCache", NoId, confirmed)

\* time passes
Tick ==
    /\ now < MaxTime
    /\ Commit([Cur EXCEPT !.now = @ + 1], "Tick", NoId, FALSE)

(***************************************************************************)
(* The fetch wrapper: the page calls fetch, the real fetch settles, the    *)
(* cloned body is decoded.                                                 *)
(***************************************************************************)
\* bodies of the responses the page's calls get
TapBodies ==
    {ArrayBody(b) : b \in Batches \cup {<<>>}}
    \cup {PlainBody("invalid"), PlainBody("object"),
          Body("object", <<>>, [NoSlots EXCEPT !["result"] = JString]),
          Body("object", <<>>,
               [NoSlots EXCEPT !["clips"] = JArr(<<GoodClip(2, NoTitle)>>)])}

RealOutcomes ==
    {Resolved(s, b) : s \in Statuses, b \in TapBodies} \cup {Rejected}

PageFetch ==
    \E arg \in FetchArgs :
        /\ Len(calls) < MaxCalls
        /\ Commit(fetchCalled(Cur, arg), "PageFetch", NoId, FALSE)

\* fetch without a request rejects with a TypeError
FetchSettles ==
    \E i \in 1..Len(calls), o \in RealOutcomes :
        /\ calls[i].stage = "real"
        /\ calls[i].arg.shape = "none" => o = Rejected
        /\ Commit(fetchSettled(Cur, i, o), "FetchSettles", NoId, o.kind = "resolve")

InspectBody ==
    \E i \in 1..Len(calls) :
        LET b == calls[i].body
            ids == IF b.t = "array" THEN {b.seq[k].id : k \in DOMAIN b.seq} ELSE {}
            m == bodyDecoded([Cur EXCEPT !.seen = ids], i)
        IN  /\ calls[i].stage = "inspect"
            /\ m.started <= MaxChains
            /\ Commit(m, "InspectBody", NoId, b.t # "invalid")

(***************************************************************************)
(* The health monitor and the menu commands that only read.                *)
(***************************************************************************)
\* setInterval (line 195), the timer of line 593 or the menu (line 560)
HealthCheck ==
    /\ probes.sent < MaxProbes
    /\ Commit(performHealthCheck(Cur), "HealthCheck", NoId, FALSE)

HealthSettles ==
    \E o \in ProbeOutcomes :
        /\ probes.pending > 0
        /\ Commit(healthSettled(Cur, o), "HealthSettles", NoId, ResponseOk(o))

ShowStatistics == Commit(showStats(Cur), "ShowStatistics", NoId, FALSE)

ExportFailedQueue == Commit(exportFailedQueue(Cur), "ExportFailedQueue", NoId, FALSE)

Next ==
    \/ HandleClips
    \/ ManualInject
    \/ Response
    \/ RetryTimer
    \/ BatchTimer
    \/ RetryFailedQueue
    \/ ClearSentCache
    \/ Tick

Spec == Init /\ [][Next]_vars

\* the delivery engine under fair scheduling: every request completes
\* (onload, onerror or ontimeout is called) and every timer that is due fires
\* Each condition is weak fairness of the action, WF_vars(A), with
\* ENABLED <<A>>_vars written out as the action's guard.
ResponseDue == inflight # EmptyBag
RetryDue == \E i \in 1..Len(timers) : timers[i].kind = "retry" /\ CanFire(i)
BatchDue == \E i \in 1..Len(timers) : timers[i].kind = "batch" /\ CanFire(i)

Fairness ==
    /\ <>[]ResponseDue => []<><<Response>>_vars
    /\ <>[]RetryDue => []<><<RetryTimer>>_vars
    /\ <>[]BatchDue => []<><<BatchTimer>>_vars

LiveNext ==
    \/ HandleClips
    \/ RetryFailedQueue
    \/ Response
    \/ RetryTimer
    \/ BatchTimer

LiveSpec == Init /\ [][LiveNext]_vars /\ Fairness

\* the fetch wrapper with the deliveries it starts
TapNext ==
    \/ PageFetch
    \/ FetchSettles
    \/ InspectBody
    \/ Response

TapSpec == Init /\ [][TapNext]_vars

\* the health monitor and the reading commands beside the delivery engine
ObsNext ==
    \/ HandleClips
    \/ Response
    \/ RetryTimer
    \/ HealthCheck
    \/ HealthSettles
    \/ ShowStatistics
    \/ ExportFailedQueue

ObsSpec == Init /\ [][ObsNext]_vars

(***************************************************************************)
(* parseClips on the decoded bodies of Suno's API: the script has started  *)
(* with nothing persisted, the page has fetched the feed and its response  *)
(* has arrived.                                                            *)
(***************************************************************************)
ParseSeqs ==
    {<<>>, <<GoodClip(1, "Song A")>>, <<GoodClip(1, "Song A"), GoodClip(2, NoTitle)>>}

\* what a known property of a body may hold
SlotValues == {JArr(q) : q \in ParseSeqs} \cup {JString, JNumber, JObject, JNull}

ParseBodies ==
    {ArrayBody(q) : q \in ParseSeqs}
    \cup {PlainBody(t) : t \in {"null", "string", "number"}}
    \cup {EntityBody(GoodClip(i, NoTitle)) : i \in Ids}
    \cup {Body("object", <<>>, f) :
            f \in {g \in [Slots -> SlotValues \cup {JUndefined}] :
                     Cardinality({k \in Slots : g[k] # JUndefined}) <= MaxKeys}}

FeedCall(b) ==
    [arg |-> [shape |-> "string", url |-> <<"suno.com/api", "feed">>],
     stage |-> "inspect", body |-> b]

ParseInit ==
    \E b \in ParseBodies :
        /\ sentIds = <<>>
        /\ failedQueue = <<>>
        /\ stats = InitStats(0)
        /\ store = [sent |-> <<>>, queue |-> <<>>, stats |-> InitStats(0)]
        /\ inflight = EmptyBag
        /\ timers = <<>>
        /\ runs = <<>>
        /\ now = 0
        /\ started = 0
        /\ cleared = FALSE
        /\ forgotten = {}
        /\ lastStep = NoStep
        /\ calls = <<FeedCall(b)>>
        /\ probes = NoProbes
        /\ lastHealth = NoTime
        /\ lastTap = NoTap

ParseNext == InspectBody

ParseSpec == ParseInit /\ [][ParseNext]_vars

(***************************************************************************)
(* Properties.                                                             *)
(***************************************************************************)
\* the delivery chains that have not ended: a POST in flight or a retry due
ActiveChains ==
    BagToSet(inflight)
    \cup {timers[i].chain : i \in {j \in 1..Len(timers) : timers[j].kind = "retry"}}

\* the chains that ended in the last turn
Ended == Range(lastStep.ended)

CountId(q, id) == Cardinality({i \in 1..Len(q) : q[i].id = id})

\* the turns that consist of calls of handleClips or sendToWebhook only
CallTurns ==
    {"HandleClips", "ManualInject", "RetryTimer", "BatchTimer", "RetryFailedQueue"}

\* C1: once an identifier is in SentMarker, a turn that only handles
\* candidates of that identifier or calls sendToWebhook for it (a retry timer,
\* a replay item, a manual injection) issues no POST and leaves SentMarker, the
\* failed queue and both counters as they were.
C1_SentIsNoOp ==
    [][\A id \in DOMAIN sentIds :
          (/\ lastStep'.op \in CallTurns
           /\ lastStep'.seen \cup Range(lastStep'.called) = {id})
          => /\ lastStep'.posted = <<>>
             /\ sentIds' = sentIds
             /\ failedQueue' = failedQueue
             /\ stats'.total_sent = stats.total_sent
             /\ stats'.total_failed = stats.total_failed]_vars

\* C2: when a chain ends after MAX_RETRIES failed attempts, the failed queue
\* holds exactly one item with its identifier and SentMarker does not hold it.
C2_ParkedOnceAndUnsent ==
    \A e \in Ended :
        e.fails = MAX_RETRIES
        => /\ CountId(failedQueue, e.id) = 1
           /\ e.id \notin DOMAIN sentIds

\* C3: a chain that exhausts its retries has raised total_failed by exactly 1
\* when all its callbacks, its caller's rejection handler included, have run.
C3_FailedCountedOnce ==
    \A e \in Ended : e.how = "exhausted" => e.incs = 1

\* C4: of two valid candidates with one identifier and two titles (in one
\* batch, or the second handled while the first one's delivery is under way)
\* the second causes no POST, and the title SentMarker holds for an identifier
\* is never replaced by another.
C4_SecondIsDropped ==
    [][/\ lastStep'.op = "HandleClips"
          => \A i \in 1..Len(lastStep'.posted) :
               LET p == lastStep'.posted[i]
               IN  /\ \A j \in 1..(i - 1) :
                         lastStep'.posted[j].id = p.id
                         => lastStep'.posted[j].title = p.title
                   /\ \A c \in ActiveChains : c.id = p.id => c.title = p.title
       /\ \A id \in DOMAIN sentIds \cap DOMAIN sentIds' :
            sentIds'[id].title = sentIds[id].title]_vars

\* C5: the failed queue never holds more than MAX_QUEUE_SIZE items.
C5_QueueWithinCapacity == Len(failedQueue) <= MAX_QUEUE_SIZE

\* the items of q that q2 no longer holds
Removed(q, q2) == Range(q) \ Range(q2)

BackoffHistory(c) ==
    /\ \A k \in 1..Len(c.delays) : c.delays[k] = RETRY_DELAY_BASE * Pow2(k)
    /\ \A k \in 1..(Len(c.delays) - 1) : c.delays[k] < c.delays[k + 1]
    /\ Len(c.delays) >= 1 => c.delays[1] = 2000
    /\ Len(c.delays) >= 2 => c.delays[2] = 4000

\* C8: the timer set after failed attempt k waits RETRY_DELAY_BASE * 2^k
\* (2000 ms after attempt 1, 4000 ms after attempt 2), the delays of a chain
\* are strictly increasing, and the retry is issued as attempt k + 1.
C8_ExponentialBackoff ==
    /\ \A i \in 1..Len(timers) :
          timers[i].kind = "retry"
          => LET c == timers[i].chain
             IN  /\ timers[i].delay = RETRY_DELAY_BASE * Pow2(c.attempt)
                 /\ Len(c.delays) = c.attempt
                 /\ c.delays[c.attempt] = timers[i].delay
                 /\ c.fails = c.attempt
                 /\ BackoffHistory(c)
    /\ \A c \in BagToSet(inflight) :
          /\ c.attempt = Len(c.delays) + 1
          /\ c.attempt = c.fails + 1
          /\ BackoffHistory(c)
    /\ lastStep.op = "RetryTimer"
          => \A i \in 1..Len(lastStep.posted) :
                lastStep.posted[i].id = lastStep.id
                => \E c \in BagToSet(inflight) :
                      /\ c.id = lastStep.id
                      /\ c.attempt = lastStep.posted[i].attempt
                      /\ c.attempt = Len(c.delays) + 1

\* the third attempt of a chain is in flight, after waits of 2000 and 4000 ms
C8_Witness ==
    \E c \in BagToSet(inflight) :
        c.attempt = MAX_RETRIES /\ c.delays = <<2000, 4000>>

\* C9: while the sent cache has not been cleared, total_sent equals the number
\* of identifiers in SentMarker: the success path runs at most once for each.
C9_SentCountedOnce ==
    ~cleared => stats.total_sent = Cardinality(DOMAIN sentIds)

\* the runs of retryFailedQueue that returned in the last turn
Finished == Range(lastStep.finished)

Recovered(f) ==
    \A i \in 1..Len(f.snapshot) :
        /\ f.snapshot[i].id \in DOMAIN sentIds
        /\ ~InQueue(failedQueue, f.snapshot[i].id)

\* C10: when a run of retryFailedQueue returns during which every response
\* was 2xx (and the sent cache was not cleared), every record of its snapshot
\* is in SentMarker and none is left in the failed queue.
C10_ReplayRecovers ==
    \A f \in Finished : (f.all2xx /\ f.uncleared) => Recovered(f)

\* C11: retryFailedQueue on an empty failed queue returns at once: it calls
\* sendToWebhook for nothing, issues no POST, starts no run and sets no timer,
\* and leaves SentMarker, the failed queue, the counters and the stores as
\* they were.
C11_EmptyReplayIsNoOp ==
    [][(lastStep'.op = "RetryFailedQueue" /\ failedQueue = <<>>)
          => /\ lastStep'.called = <<>>
             /\ lastStep'.posted = <<>>
             /\ inflight' = inflight
             /\ timers' = timers
             /\ runs' = runs
             /\ sentIds' = sentIds
             /\ failedQueue' = failedQueue
             /\ stats' = stats
             /\ store' = store]_vars

\* retryFailedQueue has run on an empty queue after a record was delivered
C11_Witness ==
    /\ lastStep.op = "RetryFailedQueue"
    /\ runs = <<>>
    /\ failedQueue = <<>>
    /\ stats.total_sent > 0

\* the URL of a call of the page names one of the trackers
OnBlocklist(arg) ==
    \E i \in 1..Len(arg.url) :
        arg.url[i] \in {"stratovibe", "sentry", "segment", "agentio", "analytics"}

\* C12: for a call of the page whose URL is not on the blocklist the wrapper
\* calls the real fetch once, in the turn of the call and with the page's
\* argument; when the real fetch settles the page is handed its outcome (the
\* response, not consumed, or the rejection); the turn that inspects the body
\* (JSON or not, of any shape) calls the real fetch no more and hands the page
\* nothing else.
C12_PassThrough ==
    /\ (lastStep.op = "PageFetch" /\ ~OnBlocklist(lastTap.arg))
          => /\ lastTap.real = <<lastTap.arg>>
             /\ lastTap.handed = NoOutcome
    /\ lastStep.op = "FetchSettles"
          => /\ ~OnBlocklist(lastTap.arg)
             /\ lastTap.real = <<>>
             /\ lastTap.outcome.kind \in {"resolve", "reject"}
             /\ ~lastTap.outcome.synth
             /\ lastTap.handed = lastTap.outcome
             /\ ~lastTap.handed.used
    /\ lastStep.op = "InspectBody"
          => /\ ~OnBlocklist(lastTap.arg)
             /\ lastTap.real = <<>>
             /\ lastTap.handed = NoOutcome
    /\ \A i \in 1..Len(calls) : ~OnBlocklist(calls[i].arg)

\* the page has been handed a response of Suno's API whose body is not JSON,
\* and the inspection of that body is still to come
C12_Witness ==
    /\ lastStep.op = "FetchSettles"
    /\ lastTap.handed.kind = "resolve"
    /\ lastTap.handed.body.t = "invalid"
    /\ \E i \in 1..Len(calls) : calls[i].stage = "inspect" /\ calls[i].body.t = "invalid"

\* C13: for a call of the page whose URL is on the blocklist the real fetch is
\* not called, the page is handed a response with status 200 that the wrapper
\* built, no body is decoded or parsed, no candidate is handled and no POST is
\* issued.
C13_BlockedIsShortCircuited ==
    [][(lastStep'.op = "PageFetch" /\ OnBlocklist(lastTap'.arg))
          => /\ lastTap'.real = <<>>
             /\ lastTap'.handed.kind = "resolve"
             /\ lastTap'.handed.status = 200
             /\ lastTap'.handed.synth
             /\ lastTap'.body = NoBody
             /\ lastTap'.parsed = JUndefined
             /\ calls' = calls
             /\ lastStep'.seen = {}
             /\ lastStep'.called = <<>>
             /\ lastStep'.posted = <<>>
             /\ inflight' = inflight
             /\ timers' = timers]_vars

\* the page has called a URL of Suno's API that names a tracker
C13_Witness ==
    /\ lastStep.op = "PageFetch"
    /\ lastTap.arg.url = <<"suno.com/api", "analytics">>
    /\ lastTap.handed.synth
    /\ lastTap.handed.status = 200

\* the turns of the health monitor
HealthTurns == {"HealthCheck", "HealthSettles"}

\* the turns of the menu commands that display or export
PresentationTurns == {"ShowStatistics", "ExportFailedQueue"}

\* C14: a turn of the health monitor (a probe is sent, or settles with a 2xx
\* response, another response or a network error) leaves the failed queue, the
\* POSTs in flight and the retry timers, hence every chain's attempt number,
\* as they were, and issues no POST; a probe that settles is not sent again.
C14_ProbeIsDecoupled ==
    [][lastStep'.op \in HealthTurns
          => /\ failedQueue' = failedQueue
             /\ store'.queue = store.queue
             /\ inflight' = inflight
             /\ timers' = timers
             /\ lastStep'.called = <<>>
             /\ lastStep'.posted = <<>>
             /\ lastStep'.op = "HealthSettles"
                   => /\ probes'.pending = probes.pending - 1
                      /\ probes'.sent = probes.sent]_vars

\* a probe has ended in a network error while a record is parked and the
\* second attempt of a delivery is in flight
C14_Witness ==
    /\ lastStep.op = "HealthSettles"
    /\ lastTap.outcome.kind = "reject"
    /\ failedQueue # <<>>
    /\ \E c \in BagToSet(inflight) : c.attempt = 2

\* C15: a turn of the health monitor (whatever the probe's outcome), a stats
\* display and an export leave SentMarker, the failed queue, total_sent and
\* total_failed as they were.
C15_ObserversReadOnly ==
    [][lastStep'.op \in HealthTurns \cup PresentationTurns
          => /\ sentIds' = sentIds
             /\ failedQueue' = failedQueue
             /\ stats'.total_sent = stats.total_sent
             /\ stats'.total_failed = stats.total_failed]_vars

\* C16: no two items of the failed queue have the same identifier.
C16_QueueIdsUnique ==
    \A i, j \in 1..Len(failedQueue) :
        i # j => failedQueue[i].id # failedQueue[j].id

\* two chains for one identifier have both exhausted their retries (four
\* calls of Logger.error, no delivery, no replay); the queue holds the
\* identifier once
C16_Witness ==
    /\ lastStep.op = "Response"
    /\ \E e \in Ended :
          /\ e.how = "exhausted"
          /\ e.origin = 0
          /\ Len(failedQueue) = 1
          /\ failedQueue[1].id = e.id
    /\ stats.total_failed = 4
    /\ sentIds = <<>>
    /\ ~cleared
    /\ runs = <<>>

\* a replayed record has exhausted its retries again
C16_ReplayedFailsAgain ==
    \E e \in Ended : e.how = "exhausted" /\ e.origin > 0

\* the items of q with another identifier than id, in their order
Others(q, id) == SelectSeq(q, LAMBDA item : item.id # id)

\* the turn of a 2xx response puts [title, now] in SentMarker for the
\* record's identifier, adds 1 to total_sent and removes the identifier's
\* items, and no other, from the failed queue
SuccessWrites ==
    (lastStep'.op = "Response" /\ lastStep'.ok)
    => /\ lastStep'.id \in DOMAIN sentIds'
       /\ \E e \in Range(lastStep'.ended) :
             /\ e.id = lastStep'.id
             /\ e.how = "delivered"
             /\ sentIds'[e.id] = [timestamp |-> now, title |-> e.title]
       /\ \A id \in DOMAIN sentIds' \ {lastStep'.id} :
             id \in DOMAIN sentIds /\ sentIds'[id] = sentIds[id]
       /\ stats'.total_sent = stats.total_sent + 1
       /\ failedQueue' = Others(failedQueue, lastStep'.id)

\* C17: in the turn of a 2xx response SentMarker[id] becomes the record's
\* title with the current time, total_sent grows by exactly 1, the failed
\* items of that identifier are removed, the other failed items stay and
\* total_failed is unchanged.
C17_SuccessFrame ==
    [][/\ SuccessWrites
       /\ (lastStep'.op = "Response" /\ lastStep'.ok)
             => stats'.total_failed = stats.total_failed]_vars

\* the candidate has an identifier and an audio URL, is complete, is not
\* trashed and its identifier is not in the sent map
Dispatchable(c, sent) ==
    /\ c.id \in Ids
    /\ c.audio_url # NoUrl
    /\ c.status = "complete"
    /\ c.is_trashed = FALSE
    /\ c.id \notin DOMAIN sent

\* C18: when a batch is handled, sendToWebhook is called (and a POST issued,
\* as attempt 1) for exactly the candidates that have an identifier and an
\* audio URL, are complete and not trashed, and whose identifier is not in
\* SentMarker, in the order of the batch; every other candidate is passed
\* over.
C18_DispatchIffValid ==
    [][(lastStep'.op = "InspectBody" /\ lastTap'.body.t = "array")
          => LET good == SelectSeq(lastTap'.body.seq,
                                   LAMBDA c : Dispatchable(c, sentIds))
             IN  /\ lastStep'.called = [i \in 1..Len(good) |-> good[i].id]
                 /\ Len(lastStep'.posted) = Len(good)
                 /\ \A i \in 1..Len(good) :
                       /\ lastStep'.posted[i].id = good[i].id
                       /\ lastStep'.posted[i].attempt = 1
                 /\ started' = started + Len(good)
                 /\ sentIds' = sentIds]_vars

\* a batch has been handled of which one complete candidate was passed over
\* because its identifier is in SentMarker and another was dispatched
C18_Witness ==
    /\ lastStep.op = "InspectBody"
    /\ lastTap.body.t = "array"
    /\ \E k \in 1..Len(lastTap.body.seq) :
          LET c == lastTap.body.seq[k]
          IN  /\ c.id \in DOMAIN sentIds
              /\ c.status = "complete"
              /\ ~c.is_trashed
              /\ c.audio_url # NoUrl
    /\ Len(lastStep.called) = 1
    /\ lastStep.called[1] \notin DOMAIN sentIds

\* the known location k of the last body inspected
Nested(k) == lastTap.body[k]

\* a body that is an object has been parsed
ParsedObject == lastStep.op = "InspectBody" /\ lastTap.body.t = "object"

\* C19 as stated: a body that nests a sequence under one of clips, result,
\* data.clips, project.clips and response.clips (and carries no other of
\* them) is parsed to that sequence.
C19_ParseFindsNested ==
    ParsedObject
    => \A k \in Slots :
          (/\ Nested(k).t = "array"
           /\ \A j \in Slots \ {k} : Nested(j) = JUndefined)
          => lastTap.parsed = Nested(k)

\* the locations parseClips probes, in its order
Probed == <<"clips", "result", "project_clips">>

\* a value that is not undefined, null, 0, "" or false
Holds(v) == v.t \notin {"undefined", "null"}

\* C19 (amended): a body that nests a sequence under clips, result or
\* project.clips is parsed to that sequence when no location probed before it
\* (in the order clips, result, project.clips) holds a truthy value;
\* data.clips and response.clips are not probed: a body that carries only
\* them is parsed to the empty sequence.
C19_ParseFindsProbed ==
    ParsedObject
    => /\ \A i \in 1..Len(Probed) :
             (/\ Nested(Probed[i]).t = "array"
              /\ \A j \in 1..(i - 1) : ~Holds(Nested(Probed[j])))
             => lastTap.parsed = Nested(Probed[i])
       /\ (\A i \in 1..Len(Probed) : ~Holds(Nested(Probed[i])))
             => lastTap.parsed = JArr(<<>>)

\* a body whose clips is null and whose project.clips is a sequence of two
\* candidates has been parsed to that sequence
C19_Witness ==
    /\ ParsedObject
    /\ Nested("clips") = JNull
    /\ Nested("project_clips").t = "array"
    /\ Len(Nested("project_clips").seq) = 2
    /\ lastTap.parsed = Nested("project_clips")

\* C20: a body that is a sequence is parsed to itself; a body that is no
\* sequence and carries none of the known locations is parsed to the empty
\* sequence; whatever the body, the result is a sequence.
C20_ParseTotal ==
    (lastStep.op = "InspectBody" /\ lastTap.body.t # "invalid")
    => /\ lastTap.body.t = "array" => lastTap.parsed = JArr(lastTap.body.seq)
       /\ (lastTap.body.t # "array" /\ \A k \in Slots : Nested(k) = JUndefined)
             => lastTap.parsed = JArr(<<>>)
       /\ lastTap.parsed.t = "array"

\* the chains of run r that have not ended
ChainsOf(r) == {c \in ActiveChains : c.origin = r}

\* the pauses of run r that are not over
PausesOf(r) == {i \in 1..Len(timers) : timers[i].kind = "batch" /\ timers[i].run = r}

\* a run that has not returned is at one item of its snapshot: it awaits that
\* item's only chain, or it pauses after it
OneItemAtATime(r) ==
    LET run == runs[r]
    IN  /\ run.idx \in 1..Len(run.snapshot)
        /\ \A c \in ChainsOf(r) : c.id = run.snapshot[run.idx].id
        /\ \A c \in BagToSet(inflight) : c.origin = r => CopiesIn(c, inflight) = 1
        /\ run.phase = "await" => Cardinality(ChainsOf(r)) = 1 /\ PausesOf(r) = {}
        /\ run.phase = "sleep" => ChainsOf(r) = {} /\ Cardinality(PausesOf(r)) = 1

\* a turn leaves run r at its item, or moves it to the next item after the
\* chain of the item before has ended, with a call of sendToWebhook at
\* attempt 1, or ends it after the last item
NextItemAfterChainEnd(r) ==
    LET run == runs[r]
    IN  IF runs'[r].phase = "done"
        THEN /\ run.idx = Len(run.snapshot)
             /\ Len(lastStep'.finished) = 1
             /\ lastStep'.finished[1].snapshot = run.snapshot
             /\ lastStep'.finished[1].idx = run.idx
             /\ ChainsOf(r)' = {}
        ELSE /\ runs'[r].snapshot = run.snapshot
             /\ runs'[r].idx \in {run.idx, run.idx + 1}
             /\ runs'[r].idx = run.idx + 1
                   => /\ \/ run.phase = "sleep"
                         \/ \E e \in Range(lastStep'.ended) : e.origin = r
                      /\ \A c \in ChainsOf(r) : c \notin ChainsOf(r)'
                      /\ run.snapshot[run.idx + 1].id \in Range(lastStep'.called)
                      /\ \A c \in ChainsOf(r)' : c.attempt = 1 /\ c.posts = 1

\* C21: retryFailedQueue copies the queue when it starts and calls
\* sendToWebhook at attempt 1 for its first item; the run then is at one item
\* at a time, moves to the next item (one call at attempt 1) only when the
\* chain of the item before, retries included, has ended, visits every item
\* of the copy once and no item parked later.
C21_ReplaySequential ==
    [][/\ \A r \in DOMAIN runs :
            runs[r].phase # "done"
            => OneItemAtATime(r) /\ NextItemAfterChainEnd(r)
       /\ Len(runs') # Len(runs)
            => /\ Len(runs') = Len(runs) + 1
               /\ Len(failedQueue) > 0
               /\ runs'[Len(runs')].snapshot = failedQueue
               /\ runs'[Len(runs')].idx = 1
               /\ lastStep'.called = <<failedQueue[1].id>>]_vars

\* the first record of a run has exhausted its retries again, and in the same
\* turn the first POST of the second record has been issued
C21_Witness ==
    /\ lastStep.op = "Response"
    /\ \E e \in Ended :
          /\ e.origin > 0
          /\ e.posts = MAX_RETRIES
          /\ runs[e.origin].idx = 2
          /\ runs[e.origin].phase = "await"
    /\ Len(lastStep.posted) = 1

\* C22: when a run of retryFailedQueue returns, its successCount counts
\* every snapshot item whose chain ended with a 2xx response, on any attempt
\* (and besides them only items passed over as already sent), and the
\* snapshot items it does not count are exactly those whose chain ended with
\* its retries exhausted.
C22_ReplayCounts ==
    \A f \in Finished :
        /\ f.delivered <= f.successCount
        /\ Len(f.snapshot) - f.successCount = f.parked

\* the items of q2 that q does not hold
Inserted(q, q2) == Range(q2) \ Range(q)

\* C23: the failed queue is cut down only in a step that inserts a new item
\* into it, and a step that inserts nothing removes no item other than those
\* of the identifier a 2xx response has just delivered.
C23_EvictionOnlyOnInsert ==
    [][/\ lastStep'.evicted => Inserted(failedQueue, failedQueue') # {}
       /\ Inserted(failedQueue, failedQueue') = {} =>
            \A x \in Removed(failedQueue, failedQueue') :
                /\ lastStep'.op = "Response"
                /\ lastStep'.ok
                /\ x.id = lastStep'.id]_vars

\* C24: a step that cuts the queue down leaves exactly the EVICT_KEEP items
\* queued last, in the order they were queued in, and the stored queue is
\* the same sequence in that same step.
C24_EvictionKeepsNewest ==
    [][lastStep'.evicted =>
          /\ \E q \in {failedQueue} \cup
                      {Append(failedQueue, x) :
                           x \in Inserted(failedQueue, failedQueue')} :
                /\ Len(q) > EVICT_KEEP
                /\ failedQueue' =
                       [i \in 1..EVICT_KEEP |-> q[Len(q) - EVICT_KEEP + i]]
          /\ store'.queue = failedQueue']_vars

\* a cut that kept a record parked by the delivery engine as its newest item
C24_Witness ==
    /\ lastStep.evicted
    /\ Len(failedQueue) = EVICT_KEEP
    /\ failedQueue[EVICT_KEEP].id \in Ids
    /\ failedQueue[1].id >= FillerBase
    /\ store.queue = failedQueue

\* the failure class of a request's outcome
ClassOf(o) ==
    IF o.kind = "load" THEN [class |-> "HTTP", status |-> o.status]
    ELSE IF o.kind = "error" THEN [class |-> "NETWORK", status |-> 0]
    ELSE [class |-> "TIMEOUT", status |-> 0]

\* C25: a request that fails, whatever its failure class, is followed by a
\* retry timer while its attempt is below MAX_RETRIES and nothing is queued;
\* at attempt MAX_RETRIES the chain ends exhausted and, unless an item of the
\* identifier is queued already, the record is queued with the class of this
\* last outcome as its error_code.
C25_FailureClasses ==
    [][(lastStep'.op = "Response" /\ ~lastStep'.ok) =>
          \E c \in BagToSet(inflight) :
             /\ c.id = lastStep'.id
             /\ CopiesIn(c, inflight') < CopiesIn(c, inflight)
             /\ IF c.attempt < MAX_RETRIES
                THEN /\ failedQueue' = failedQueue
                     /\ lastStep'.ended = <<>>
                     /\ Len(timers') = Len(timers) + 1
                     /\ LET t == timers'[Len(timers')]
                        IN  /\ t.kind = "retry"
                            /\ t.chain.id = c.id
                            /\ t.chain.attempt = c.attempt
                ELSE /\ \E e \in Range(lastStep'.ended) :
                            e.id = c.id /\ e.how = "exhausted"
                     /\ IF \E x \in Range(failedQueue) : x.id = c.id
                        THEN Inserted(failedQueue, failedQueue') = {}
                        ELSE Inserted(failedQueue, failedQueue') =
                                 {[id |-> c.id, title |-> c.title,
                                   audio_url |-> c.audio_url,
                                   failed_at |-> now,
                                   error_code |-> ClassOf(lastTap'.outcome)]}]_vars

\* a record has just been queued after a last attempt that timed out, next
\* to a record queued after an HTTP 500
C25_Witness ==
    /\ lastStep.op = "Response"
    /\ ~lastStep.ok
    /\ lastTap.outcome.kind = "timeout"
    /\ failedQueue # <<>>
    /\ failedQueue[Len(failedQueue)].id = lastStep.id
    /\ failedQueue[Len(failedQueue)].error_code.class = "TIMEOUT"
    /\ \E x \in Range(failedQueue) :
          x.id \in Ids /\ x.error_code = [class |-> "HTTP", status |-> 500]

\* the candidates of batch b that are passed over
Rejects(b, sent) == {k \in DOMAIN b : ~Dispatchable(b[k], sent)}

\* C26: handling a batch changes neither total_failed, total_sent nor
\* SentMarker; a candidate that is invalid or whose identifier is in
\* SentMarker gets no POST (the POSTs of the turn are as many as the other
\* candidates), and a batch of such candidates only leaves the failed queue,
\* the stores, the requests in flight and the timers as they were.
C26_RejectedIsInert ==
    [][(lastStep'.op = "InspectBody" /\ lastTap'.body.t = "array")
          => LET b == lastTap'.body.seq
                 out == Rejects(b, sentIds)
             IN  /\ stats'.total_failed = stats.total_failed
                 /\ stats'.total_sent = stats.total_sent
                 /\ sentIds' = sentIds
                 /\ Len(lastStep'.posted) = Len(b) - Cardinality(out)
                 /\ \A k \in out :
                       (\A j \in DOMAIN b \ out : b[j].id # b[k].id)
                       => /\ b[k].id \notin Range(lastStep'.called)
                          /\ \A i \in DOMAIN lastStep'.posted :
                                lastStep'.posted[i].id # b[k].id
                 /\ out = DOMAIN b
                       => /\ lastStep'.called = <<>>
                          /\ failedQueue' = failedQueue
                          /\ store' = store
                          /\ stats' = stats
                          /\ inflight' = inflight
                          /\ timers' = timers
                          /\ started' = started]_vars

\* a batch of a trashed candidate and a candidate whose identifier is in
\* SentMarker has been handled
C26_Witness ==
    /\ lastStep.op = "InspectBody"
    /\ lastTap.body.t = "array"
    /\ Len(lastTap.body.seq) = 2
    /\ lastTap.body.seq[1].is_trashed
    /\ lastTap.body.seq[2] = GoodClip(1, "Song A")
    /\ 1 \in DOMAIN sentIds
    /\ lastStep.posted = <<>>

\* the URL of a call holds "suno.com/api" or "clerk.suno.com"
AllowPattern(arg) ==
    \E i \in 1..Len(arg.url) : arg.url[i] \in {"suno.com/api", "clerk.suno.com"}

\* C27: a body is inspected (parsed, its candidates handled) only for a call
\* whose URL matches the allow-pattern; the turns of a call to any other URL
\* issue no POST, change neither SentMarker, the failed queue nor the stats,
\* and leave no body to inspect.
C27_OnlyApiBodiesParsed ==
    [][/\ lastStep'.op = "InspectBody" => AllowPattern(lastTap'.arg)
       /\ \A i \in 1..Len(calls') :
             calls'[i].stage = "inspect" => AllowPattern(calls'[i].arg)
       /\ (lastStep'.op \in {"PageFetch", "FetchSettles"}
             /\ ~AllowPattern(lastTap'.arg))
          => /\ lastStep'.posted = <<>>
             /\ lastStep'.called = <<>>
             /\ lastTap'.parsed = JUndefined
             /\ sentIds' = sentIds
             /\ failedQueue' = failedQueue
             /\ stats' = stats
             /\ store' = store
             /\ inflight' = inflight
             /\ timers' = timers
             /\ started' = started]_vars

\* the response of a call to another host has arrived with a batch holding a
\* candidate that would be dispatched, and nothing is left to inspect
C27_Witness ==
    /\ lastStep.op = "FetchSettles"
    /\ lastTap.arg.url = <<"cdn1.suno.ai", "image">>
    /\ lastTap.outcome.kind = "resolve"
    /\ lastTap.outcome.status = 200
    /\ lastTap.outcome.body.t = "array"
    /\ \E k \in 1..Len(lastTap.outcome.body.seq) :
          Dispatchable(lastTap.outcome.body.seq[k], sentIds)
    /\ calls = <<>>
    /\ lastStep.posted = <<>>

\* a location that is absent or holds the empty sequence
AbsentOrEmpty(v) == v = JUndefined \/ v = JArr(<<>>)

\* C28: the locations are probed in their order and the first non-empty
\* match is returned: when a location holds a non-empty sequence and every
\* location probed before it is absent or holds the empty sequence, that
\* non-empty sequence is the result.
C28_FirstNonEmptyMatch ==
    ParsedObject
    => \A j \in 1..Len(Probed) :
          (/\ Nested(Probed[j]).t = "array"
           /\ Nested(Probed[j]).seq # <<>>
           /\ \A i \in 1..(j - 1) : AbsentOrEmpty(Nested(Probed[i])))
          => lastTap.parsed = Nested(Probed[j])

\* a body that is itself one clip and carries no known location has been
\* parsed
ParsedEntity ==
    /\ ParsedObject
    /\ lastTap.body.own # <<>>
    /\ \A k \in Slots : Nested(k) = JUndefined

\* C29 as stated: a body that is no sequence, has no known location and
\* carries the identity fields of one clip is parsed to the one-element
\* sequence holding it.
C29_ParseWrapsEntity ==
    ParsedEntity => lastTap.parsed = JArr(lastTap.body.own)

\* C29 (amended): such a body is parsed to the empty sequence, and nothing
\* is handed to handleClips.
C29_ParseDropsEntity ==
    ParsedEntity
    => /\ lastTap.parsed = JArr(<<>>)
       /\ lastStep.called = <<>>
       /\ lastStep.posted = <<>>

\* a body that is a complete clip with an audio URL has been parsed
C29_Witness ==
    /\ ParsedEntity
    /\ lastTap.body.own[1].status = "complete"
    /\ lastTap.body.own[1].audio_url # NoUrl
    /\ inflight = EmptyBag

\* a record with an identifier and an audio URL
Deliverable(x) == x.id # NoId /\ x.audio_url # NoUrl

\* C30: every record sendToWebhook is working on or is called with, by
\* handleClips (for a batch or the manual push), by a retry timer or by
\* retryFailedQueue, has an identifier and an audio URL: the chains in flight
\* and waiting for a retry, the calls and POSTs of the last turn, the items
\* queued and the items of the running replays.
C30_RecordsAreDeliverable ==
    /\ \A c \in ActiveChains : Deliverable(c)
    /\ \A i \in 1..Len(lastStep.called) : lastStep.called[i] # NoId
    /\ \A i \in 1..Len(lastStep.posted) : lastStep.posted[i].id # NoId
    /\ \A x \in Range(failedQueue) : Deliverable(x)
    /\ \A r \in 1..Len(runs) : \A x \in Range(runs[r].snapshot) : Deliverable(x)
    /\ NoId \notin DOMAIN sentIds

\* the second attempt for a replayed item is in flight while a record that
\* came in a batch waits for its retry
C30_Witness ==
    /\ \E c \in BagToSet(inflight) : c.origin > 0 /\ c.attempt = 2
    /\ \E i \in 1..Len(timers) :
          /\ timers[i].kind = "retry"
          /\ timers[i].chain.origin = 0

\* C31: whenever the promise of a delivery is rejected, the rejection goes to
\* the handler of the caller that holds it (the .catch of handleClips, the
\* try/catch of retryFailedQueue), and a chain that exhausted its retries
\* leaves an item of its identifier in the failed queue and has raised an
\* error notification (Logger.error, with its toast) before its promise is
\* rejected.
C31_RejectionsHandled ==
    \A e \in Ended :
        /\ ~e.ok => e.caught = IF e.origin = 0 THEN "handleClips"
                               ELSE "retryFailedQueue"
        /\ e.how = "exhausted"
              => /\ ~e.ok
                 /\ e.incs >= 1
                 /\ \E i \in 1..Len(failedQueue) : failedQueue[i].id = e.id
                 /\ store.queue = failedQueue

\* a record that came in a batch has exhausted its retries: it is queued and
\* the rejection went to the .catch of handleClips
C31_Witness ==
    \E e \in Ended :
        /\ e.how = "exhausted"
        /\ e.origin = 0
        /\ e.caught = "handleClips"
        /\ e.fails = MAX_RETRIES
        /\ failedQueue # <<>>
        /\ failedQueue[Len(failedQueue)].id = e.id

\* C32: a manual push of identifier X starts exactly one delivery chain
\* (one call of sendToWebhook and one POST, attempt 1, title "Manual
\* Override", for a record with X's audio URL) when X is not in SentMarker,
\* and none when X is in SentMarker or the input is empty.
C32_ManualPush ==
    [][lastStep'.op = "ManualInject" =>
          LET id == lastStep'.id
          IN  IF id = NoId \/ id \in DOMAIN sentIds
              THEN /\ lastStep'.called = <<>>
                   /\ lastStep'.posted = <<>>
                   /\ inflight' = inflight
                   /\ started' = started
              ELSE /\ lastStep'.called = <<id>>
                   /\ lastStep'.posted = <<[id |-> id, title |-> "Manual Override",
                                            attempt |-> 1]>>
                   /\ started' = started + 1
                   /\ BagCardinality(inflight') = BagCardinality(inflight) + 1
                   /\ \E c \in BagToSet(inflight') :
                         /\ c.id = id
                         /\ c.attempt = 1
                         /\ c.origin = 0
                         /\ c.audio_url # NoUrl
                         /\ CopiesIn(c, inflight') = CopiesIn(c, inflight) + 1
                   /\ sentIds' = sentIds
                   /\ stats' = stats]_vars

\* an identifier delivered by a manual push has been pushed manually again
C32_Witness ==
    /\ lastStep.op = "ManualInject"
    /\ lastStep.id \in DOMAIN sentIds
    /\ sentIds[lastStep.id].title = "Manual Override"
    /\ lastStep.posted = <<>>

\* the identifiers the POSTs of the turn just taken are for
PostedIds == {lastStep'.posted[i].id : i \in 1..Len(lastStep'.posted)}

\* C33: the menu command, once confirmed, empties SentMarker and its store
\* and leaves the failed queue, the stats and their stores as they were (and
\* changes nothing when not confirmed); an identifier forgotten that way is
\* POSTed again when it is pushed again; in no turn is a POST issued for an
\* identifier that is in SentMarker, and only this command takes identifiers
\* out of SentMarker.
C33_ClearSentCache ==
    [][/\ lastStep'.op = "ClearSentCache"
            => /\ failedQueue' = failedQueue
               /\ stats' = stats
               /\ store'.queue = store.queue
               /\ store'.stats = store.stats
               /\ lastStep'.posted = <<>>
               /\ inflight' = inflight
               /\ timers' = timers
               /\ IF lastStep'.ok
                  THEN sentIds' = <<>> /\ store'.sent = <<>>
                  ELSE sentIds' = sentIds /\ store'.sent = store.sent
       /\ (/\ lastStep'.op = "ManualInject"
           /\ lastStep'.id \in forgotten \ DOMAIN sentIds)
            => PostedIds = {lastStep'.id}
       /\ PostedIds \cap (DOMAIN sentIds \cup DOMAIN sentIds') = {}
       /\ lastStep'.op # "ClearSentCache"
            => \A id \in DOMAIN sentIds : id \in DOMAIN sentIds']_vars

\* a batch with an identifier that was delivered and then forgotten has been
\* handled, and the identifier POSTed again
C33_Witness ==
    /\ lastStep.op = "HandleClips"
    /\ \E i \in 1..Len(lastStep.posted) : lastStep.posted[i].id \in forgotten
    /\ sentIds = <<>>
    /\ store.sent = <<>>
    /\ stats.total_sent = 1

\* C34: the promise sendToWebhook returned to its caller is resolved exactly
\* when the chain ends with a 2xx response (on whatever attempt) or finds the
\* identifier in SentMarker, and rejected exactly when the chain ends with
\* its retries exhausted; a chain that ends delivered has called
\* Logger.error, and so raised total_failed, not once.
C34_PromiseTellsOutcome ==
    \A e \in Ended :
        /\ e.ok <=> e.how \in {"delivered", "skipped"}
        /\ ~e.ok <=> e.how = "exhausted"
        /\ e.how = "delivered" => e.incs = 0

\* C35: no identifier is in SentMarker and in the failed queue at once.
C35_SentAndQueuedDisjoint ==
    \A i \in 1..Len(failedQueue) : failedQueue[i].id \notin DOMAIN sentIds

\* the retry timers that are pending for identifier id
RetryTimersOf(id) ==
    {i \in 1..Len(timers) : timers[i].kind = "retry" /\ timers[i].chain.id = id}

\* the POSTs in flight for identifier id, as a bag
InFlightOf(id) ==
    [c \in {d \in BagToSet(inflight) : d.id = id} |-> CopiesIn(c, inflight)]

\* C36: for every identifier there is at most one delivery chain: a POST in
\* flight or a pending retry timer.
C36_OneChainPerId ==
    \A id \in Ids :
        BagCardinality(InFlightOf(id)) + Cardinality(RetryTimersOf(id)) <= 1

\* C37: between two turns of the event loop the stored sent map, failed
\* queue and stats equal sentIds, failedQueue and stats.
C37_StoresMirrorMemory ==
    /\ store.sent = sentIds
    /\ store.queue = failedQueue
    /\ store.stats = stats

\* a delivery and a parking have both been stored
C37_Witness ==
    /\ lastStep.op = "Response"
    /\ stats.total_sent = 1
    /\ stats.total_failed > 0
    /\ DOMAIN sentIds # {}
    /\ \E i \in 1..Len(failedQueue) : failedQueue[i].id \in Ids
    /\ store = [sent |-> sentIds, queue |-> failedQueue, stats |-> stats]

\* a chain for identifier id is under way
ChainUnderWay(id) == \E c \in ActiveChains : c.id = id

\* run r has been started and has not returned
Running(r) == Len(runs) >= r /\ runs[r].phase # "done"

\* C38: when every request completes and every due timer fires, the chains
\* under way for an identifier all end, every run of retryFailedQueue
\* returns, and a run that returns has been at every item of its snapshot.
C38_Termination ==
    /\ \A id \in Ids : ChainUnderWay(id) ~> ~ChainUnderWay(id)
    /\ \A r \in 1..MaxRuns : Running(r) ~> (Len(runs) >= r /\ ~Running(r))
    /\ [](\A f \in Finished : f.idx = Len(f.snapshot))

\* a run over two records has returned after one of them exhausted its
\* retries again
C38_Witness ==
    \E f \in Finished :
        /\ Len(f.snapshot) = 2
        /\ f.idx = 2
        /\ f.parked >= 1

\* C39: in the turn in which a replayed record exhausts its retries again the
\* failed queue does not change, and it holds the record's identifier once,
\* in the very item the run took from the queue (same error_code, same
\* failed_at).
C39_ReplayFailureKeepsQueue ==
    [][\A e \in Range(lastStep'.ended) :
          (e.origin > 0 /\ e.how = "exhausted")
          => LET run == runs[e.origin]
             IN  /\ failedQueue' = failedQueue
                 /\ CountId(failedQueue', e.id) = 1
                 /\ run.snapshot[run.idx] \in Range(failedQueue')]_vars

=============================================================================
